---- MODULE Spec2Model ----
(***************************************************************************)
(* Model of icons/make_icons.py: create_png(size, filename) builds a       *)
(* minimal solid-colour PNG in memory (signature, IHDR, IDAT, IEND) and    *)
(* writes it to a file; the script calls it for the sizes 16, 48 and 128.  *)
(*                                                                         *)
(* Bytes are the integers 0..255 and byte strings are sequences of bytes.  *)
(* 32-bit words (CRC-32, Adler-32) are kept as pairs <<hi, lo>> of 16-bit  *)
(* halves, because a 32-bit unsigned value does not fit the checker's      *)
(* integers.                                                               *)
(***************************************************************************)
EXTENDS Integers, Sequences, FiniteSets

(***************************************************************************)
(* Bounds of the model.                                                    *)
(***************************************************************************)
\* largest valid size tried by the single-call specification
MaxSize == 3
\* longest sequence of calls tried by the single-call specification
MaxCalls == 2
\* length of a file that is already at the destination before the run
StaleLen == 200

(***************************************************************************)
(* Byte-level helpers: struct.pack and the zlib library.                   *)
(***************************************************************************)
RECURSIVE Xor(_, _)
\* bitwise exclusive or of two naturals
Xor(a, b) ==
    IF a = 0 THEN b
    ELSE IF b = 0 THEN a
    ELSE ((a + b) % 2) + 2 * Xor(a \div 2, b \div 2)

\* exclusive or of two 32-bit words
Xor32(u, v) == <<Xor(u[1], v[1]), Xor(u[2], v[2])>>

\* the four bytes of a 32-bit word, most significant first
WordBytes(u) == <<u[1] \div 256, u[1] % 256, u[2] \div 256, u[2] % 256>>

\* struct.pack('>I', v) accepts v in 0 .. 2^32-1 and raises struct.error
\* otherwise; the sizes of the model stay below 2^31
PackOK(v) == v >= 0

\* struct.pack('>I', v): four bytes, big-endian
PackU32(v) ==
    <<(v \div 16777216) % 256, (v \div 65536) % 256, (v \div 256) % 256, v % 256>>

\* struct.pack('>B', v)
PackU8(v) == <<v % 256>>

\* the reflected CRC-32 polynomial 0xEDB88320
CrcPoly == <<60856, 33568>>

\* one bit of the CRC-32 shift register
CrcBit(c) ==
    LET shifted == <<c[1] \div 2, (c[1] % 2) * 32768 + c[2] \div 2>>
    IN  IF c[2] % 2 = 1 THEN Xor32(shifted, CrcPoly) ELSE shifted

\* the CRC-32 table: entry n is n pushed through eight bit steps
CrcTable ==
    [n \in 0..255 |->
        CrcBit(CrcBit(CrcBit(CrcBit(CrcBit(CrcBit(CrcBit(CrcBit(<<0, n>>))))))))]

\* the CRC-32 register after one more byte
CrcByte(c, b) ==
    Xor32(CrcTable[Xor(c[2] % 256, b)],
          <<c[1] \div 256, (c[1] % 256) * 256 + c[2] \div 256>>)

\* zlib.crc32(s) & 0xffffffff, as a 32-bit word: the register starts at
\* 0xffffffff, takes the bytes of s in order and is inverted at the end.
\* Of[t] binds the string once; R[<<c, lo, hi>>] is the register c after the
\* bytes t[lo..hi], a range being split in halves so that the evaluation
\* stays shallow on long strings.
crc32(s) ==
    LET Of[t \in {s}] ==
            LET R[a \in Seq(Nat) \X Nat \X Nat] ==
                    LET c == a[1]
                        lo == a[2]
                        hi == a[3]
                        mid == (lo + hi) \div 2
                    IN  IF lo > hi THEN c
                        ELSE IF lo = hi THEN CrcByte(c, t[lo])
                        ELSE R[<<R[<<c, lo, mid>>], mid + 1, hi>>]
            IN  Xor32(R[<<(<<65535, 65535>>), 1, Len(t)>>], <<65535, 65535>>)
    IN  Of[s]

\* struct.pack('>I', zlib.crc32(s) & 0xffffffff)
PackCrc(s) == WordBytes(crc32(s))

\* zlib.adler32(s), as a 32-bit word <<b, a>>: a is 1 plus the sum of the
\* bytes and b the sum of the values a takes, both modulo 65521.
\* R[<<c, lo, hi>>] is the pair c after the bytes t[lo..hi].
adler32(s) ==
    LET Of[t \in {s}] ==
            LET R[v \in Seq(Nat) \X Nat \X Nat] ==
                    LET c == v[1]
                        lo == v[2]
                        hi == v[3]
                        mid == (lo + hi) \div 2
                        a == (c[2] + t[lo]) % 65521
                    IN  IF lo > hi THEN c
                        ELSE IF lo = hi THEN <<(c[1] + a) % 65521, a>>
                        ELSE R[<<R[<<c, lo, mid>>], mid + 1, hi>>]
            IN  R[<<(<<0, 1>>), 1, Len(t)>>]
    IN  Of[s]

\* a deflate stream of stored blocks (at most 65535 bytes each) holding s:
\* Blocks[t] is the stream for the bytes t that are left
StoredBlocks(s) ==
    LET Blocks[t \in Seq(Nat)] ==
            LET n    == IF Len(t) > 65535 THEN 65535 ELSE Len(t)
                last == Len(t) <= 65535
                head == <<IF last THEN 1 ELSE 0,
                          n % 256, n \div 256,
                          255 - (n % 256), 255 - (n \div 256)>>
            IN  IF last THEN head \o t
                ELSE head \o SubSeq(t, 1, n) \o Blocks[SubSeq(t, n + 1, Len(t))]
    IN  Blocks[s]

\* zlib.compress(s): a zlib stream (two header bytes, deflate data, the
\* Adler-32 of the uncompressed bytes) that inflates to s
compress(s) == <<120, 156>> \o StoredBlocks(s) \o WordBytes(adler32(s))

(***************************************************************************)
(* create_png, lines 6-30: the bytes built in memory.                      *)
(***************************************************************************)
\* color = (102, 126, 234)
color == <<102, 126, 234>>

\* b'\x89PNG\r\n\x1a\n'
PngSignature == <<137, 80, 78, 71, 13, 10, 26, 10>>

\* b'IHDR', b'IDAT', b'IEND'
TagIHDR == <<73, 72, 68, 82>>
TagIDAT == <<73, 68, 65, 84>>
TagIEND == <<73, 69, 78, 68>>

\* the header packed with '<II' for '>II': width and height little-endian
PackIhdrLittleEndian(width, height) ==
    <<width % 256, (width \div 256) % 256, (width \div 65536) % 256, (width \div 16777216) % 256,
      height % 256, (height \div 256) % 256, (height \div 65536) % 256, (height \div 16777216) % 256,
      8, 2, 0, 0, 0>>

\* ihdr = struct.pack('>IIBBBBB', width, height, 8, 2, 0, 0, 0)
PackIhdr(width, height) ==
    PackU32(width) \o PackU32(height)
        \o PackU8(8) \o PackU8(2) \o PackU8(0) \o PackU8(0) \o PackU8(0)

\* the loops of lines 18-22 with line 20 left out: no filter byte
RawDataNoFilter(width, height) ==
    [i \in 1..(3 * width * height) |-> color[((i - 1) % 3) + 1]]

\* raw_data after the loops of lines 18-22. Pixels[<<lo, hi>>] is what the
\* passes lo .. hi-1 of the inner loop append (bytes(color) each) and
\* Lines[<<lo, hi>>] what the passes lo .. hi-1 of the outer loop append (the
\* filter byte b'\x00', then the inner loop); a range of passes is split in
\* halves so that the evaluation stays shallow.
RawData(width, height) ==
    LET Pixels[r \in Nat \X Nat] ==
            LET mid == (r[1] + r[2]) \div 2
            IN  IF r[1] >= r[2] THEN <<>>
                ELSE IF r[1] + 1 = r[2] THEN color
                ELSE Pixels[<<r[1], mid>>] \o Pixels[<<mid, r[2]>>]
        Lines[r \in Nat \X Nat] ==
            LET mid == (r[1] + r[2]) \div 2
            IN  IF r[1] >= r[2] THEN <<>>
                ELSE IF r[1] + 1 = r[2] THEN <<0>> \o Pixels[<<0, width>>]
                ELSE Lines[<<r[1], mid>>] \o Lines[<<mid, r[2]>>]
    IN  Lines[<<0, height>>]

\* a chunk whose checksum covers the payload alone
ChunkCrcOfPayload(length, tag, payload) ==
    PackU32(length) \o tag \o payload \o PackCrc(payload)

\* a chunk whose checksum line was forgotten
ChunkNoCrc(length, tag, payload) ==
    PackU32(length) \o tag \o payload

\* one chunk as lines 14-15, 25-26 and 29-30 append it:
\* struct.pack('>I', length) + tag + payload + struct.pack('>I', crc32(tag + payload))
Chunk(length, tag, payload) ==
    PackU32(length) \o tag \o payload \o PackCrc(tag \o payload)

\* create_png without lines 29-30: no end chunk
create_png_build_NoEnd(size) ==
    LET ihdr       == PackIhdr(size, size)
        raw_data   == RawData(size, size)
        compressed == compress(raw_data)
    IN  [ihdr       |-> ihdr,
         raw_data   |-> raw_data,
         compressed |-> compressed,
         data       |-> PngSignature
                            \o PackU32(13) \o TagIHDR \o ihdr \o PackCrc(TagIHDR \o ihdr)
                            \o PackU32(Len(compressed)) \o TagIDAT \o compressed
                            \o PackCrc(TagIDAT \o compressed)]

\* the locals of create_png(size, ...) when line 30 is done
create_png_build(size) ==
    LET width      == size
        height     == size
        ihdr       == PackIhdr(width, height)
        raw_data   == RawData(width, height)
        compressed == compress(raw_data)
    IN  [ihdr       |-> ihdr,
         raw_data   |-> raw_data,
         compressed |-> compressed,
         data       |-> PngSignature
                            \o Chunk(13, TagIHDR, ihdr)
                            \o Chunk(Len(compressed), TagIDAT, compressed)
                            \o Chunk(0, TagIEND, <<>>)]

(***************************************************************************)
(* The calls of the model and the state of a run.                          *)
(***************************************************************************)
\* the script with the first file name pasted into the second call
ScriptCallsSameName ==
    << [size |-> 16,  filename |-> "icon16.png"],
       [size |-> 48,  filename |-> "icon16.png"],
       [size |-> 128, filename |-> "icon128.png"] >>

\* lines 38-40: the three calls of the script, in order
ScriptCalls ==
    << [size |-> 16,  filename |-> "icon16.png"],
       [size |-> 48,  filename |-> "icon48.png"],
       [size |-> 128, filename |-> "icon128.png"] >>

\* the arguments tried for a call on its own: sizes around zero and the
\* smallest valid ones, two destinations
CallSizes == (-1) .. MaxSize
CallFiles == {"a.png", "b.png"}
CallArgs == [size : CallSizes, filename : CallFiles]

\* create_png_build tabulated once for the sizes that struct.pack accepts
Built ==
    [size \in {n \in CallSizes : PackOK(n)}
                \cup {ScriptCalls[i].size : i \in DOMAIN ScriptCalls}
        |-> create_png_build(size)]

\* a destination that does not exist, and one left there by something else
NoFile == [exists |-> FALSE, bytes |-> <<>>]
StaleFile == [exists |-> TRUE, bytes |-> [i \in 1..StaleLen |-> 255]]

\* locals of a call that has not reached line 30
NoLocals == [ihdr |-> <<>>, raw_data |-> <<>>, compressed |-> <<>>, data |-> <<>>]

VARIABLES
    calls,   \* the calls of the run: <<[size, filename], ...>>
    pc,      \* pc[k]: where call k stands
    mem,     \* mem[k]: the locals ihdr, raw_data, compressed, data of call k
    disk,    \* disk[f]: the file named f
    stdout   \* what has been printed

vars == <<calls, pc, mem, disk, stdout>>

\* pc[k] is "pending" before the call, "built" after line 30, "opened" after
\* line 33, "written" after the with block, "returned" after line 35, and
\* "raised13", "raised33" or "raised34" when that line raised
Raised == {"raised13", "raised33", "raised34"}

Calls == DOMAIN calls

\* the state of a run that is about to make the calls cs, on one of disks
Start(cs, disks) ==
    /\ calls = cs
    /\ pc = [k \in DOMAIN cs |-> "pending"]
    /\ mem = [k \in DOMAIN cs |-> NoLocals]
    /\ disk \in disks
    /\ stdout = <<>>

\* the destinations of the script
ScriptFiles == {ScriptCalls[i].filename : i \in DOMAIN ScriptCalls}

\* what an earlier, complete run of the script has left at its destinations
EarlierRun ==
    [f \in ScriptFiles |->
        LET i == CHOOSE i \in DOMAIN ScriptCalls : ScriptCalls[i].filename = f
        IN  [exists |-> TRUE, bytes |-> Built[ScriptCalls[i].size].data]]

\* the script: the calls of lines 38-40, each destination absent, stale or
\* left by an earlier run
Init ==
    Start(ScriptCalls,
          {d \in [ScriptFiles -> {NoFile, StaleFile} \cup {EarlierRun[f] : f \in ScriptFiles}] :
              \A f \in ScriptFiles : d[f] \in {NoFile, StaleFile, EarlierRun[f]}})

\* the script run with one thread for each call
InitPar == Start(ScriptCalls, [ScriptFiles -> {NoFile, StaleFile}])

\* one or several calls with any arguments
InitCall ==
    \E n \in 1..MaxCalls : \E cs \in [1..n -> CallArgs] :
        Start(cs, [CallFiles -> {NoFile, StaleFile}])

\* open(filename, 'r+b') for 'wb': the old bytes stay
OpenKeep(file) == [exists |-> TRUE, bytes |-> file.bytes]

\* open(filename, 'wb'): the file is created, or cut to length zero
OpenWb(file) == [exists |-> TRUE, bytes |-> <<>>]

\* f.write(bytes) on a file just opened: the bytes go to offset 0 and up
WriteAt0(file, bytes) ==
    [exists |-> TRUE,
     bytes  |-> bytes \o SubSeq(file.bytes, Len(bytes) + 1, Len(file.bytes))]

\* where a write that fails may have stopped: before the first byte, after
\* the signature, after the header chunk, before the end chunk, or one
\* byte short
Cuts(bytes) ==
    {n \in {0, 8, 33, Len(bytes) - 12, Len(bytes) - 1} : n >= 0 /\ n < Len(bytes)}

\* lines 6-30 with sizes that struct.pack accepts
Build(k) ==
    /\ pc[k] = "pending"
    /\ PackOK(calls[k].size)
    /\ mem' = [mem EXCEPT ![k] = Built[calls[k].size]]
    /\ pc' = [pc EXCEPT ![k] = "built"]
    /\ UNCHANGED <<calls, disk, stdout>>

\* line 13: struct.pack raises struct.error, which leaves create_png
BuildRaise(k) ==
    /\ pc[k] = "pending"
    /\ ~PackOK(calls[k].size)
    /\ pc' = [pc EXCEPT ![k] = "raised13"]
    /\ UNCHANGED <<calls, mem, disk, stdout>>

\* line 33: open(filename, 'wb')
Open(k) ==
    /\ pc[k] = "built"
    /\ disk' = [disk EXCEPT ![calls[k].filename] = OpenWb(@)]
    /\ pc' = [pc EXCEPT ![k] = "opened"]
    /\ UNCHANGED <<calls, mem, stdout>>

\* line 33: open raises OSError (no permission, no such directory)
OpenRaise(k) ==
    /\ pc[k] = "built"
    /\ pc' = [pc EXCEPT ![k] = "raised33"]
    /\ UNCHANGED <<calls, mem, disk, stdout>>

\* line 34 and the end of the with block: f.write(data), then close
Write(k) ==
    /\ pc[k] = "opened"
    /\ disk' = [disk EXCEPT ![calls[k].filename] = WriteAt0(@, mem[k].data)]
    /\ pc' = [pc EXCEPT ![k] = "written"]
    /\ UNCHANGED <<calls, mem, stdout>>

\* line 34 and the end of the with block: the write or the flush at close
\* raises OSError (disk full) after n bytes; the file is closed and stays
WriteRaise(k) ==
    /\ pc[k] = "opened"
    /\ \E n \in Cuts(mem[k].data) :
          disk' = [disk EXCEPT ![calls[k].filename] =
                      WriteAt0(@, SubSeq(mem[k].data, 1, n))]
    /\ pc' = [pc EXCEPT ![k] = "raised34"]
    /\ UNCHANGED <<calls, mem, stdout>>

\* line 35: print(f'Created {filename} ({size}x{size})'), then return
Return(k) ==
    /\ pc[k] = "written"
    /\ stdout' = Append(stdout, <<"Created", calls[k].filename, calls[k].size>>)
    /\ pc' = [pc EXCEPT ![k] = "returned"]
    /\ UNCHANGED <<calls, mem, disk>>

\* line 42: print('\nAll icons created successfully!')
AllDoneMsg == <<"All icons created successfully!">>

Finish ==
    /\ \A k \in Calls : pc[k] = "returned"
    /\ \A i \in DOMAIN stdout : stdout[i] # AllDoneMsg
    /\ stdout' = Append(stdout, AllDoneMsg)
    /\ UNCHANGED <<calls, pc, mem, disk>>

\* calls that do not wait for the calls before them
TurnAny(k) == k \in Calls

\* statements run in order: call k runs when the calls before it returned
Turn(k) == \A j \in Calls : j < k => pc[j] = "returned"

\* the script make_icons.py (its sizes never make struct.pack raise)
Next ==
    \/ \E k \in Calls : Turn(k) /\ Build(k)
    \/ \E k \in Calls : Turn(k) /\ Open(k)
    \/ \E k \in Calls : Turn(k) /\ OpenRaise(k)
    \/ \E k \in Calls : Turn(k) /\ Write(k)
    \/ \E k \in Calls : Turn(k) /\ WriteRaise(k)
    \/ \E k \in Calls : Turn(k) /\ Return(k)
    \/ Finish

Spec == Init /\ [][Next]_vars

\* calls made one after the other, with any arguments
NextCall ==
    \/ \E k \in Calls : Turn(k) /\ Build(k)
    \/ \E k \in Calls : Turn(k) /\ BuildRaise(k)
    \/ \E k \in Calls : Turn(k) /\ Open(k)
    \/ \E k \in Calls : Turn(k) /\ OpenRaise(k)
    \/ \E k \in Calls : Turn(k) /\ Write(k)
    \/ \E k \in Calls : Turn(k) /\ WriteRaise(k)
    \/ \E k \in Calls : Turn(k) /\ Return(k)

SpecCall == InitCall /\ [][NextCall]_vars

\* the three calls of the script made at the same time, one thread each,
\* and line 42 once they are joined
NextPar ==
    \/ \E k \in Calls : Build(k)
    \/ \E k \in Calls : Open(k)
    \/ \E k \in Calls : OpenRaise(k)
    \/ \E k \in Calls : Write(k)
    \/ \E k \in Calls : WriteRaise(k)
    \/ \E k \in Calls : Return(k)
    \/ Finish

SpecPar == InitPar /\ [][NextPar]_vars

(***************************************************************************)
(* Readers of the format, the inverses of the packing above.  The claims   *)
(* are stated on what a reader gets back from the bytes.                   *)
(***************************************************************************)
\* struct.unpack('>I', s[off : off+4]); -1 when it is 2^31 or more
ReadU32(s, off) ==
    IF s[off + 1] >= 128 THEN -1
    ELSE s[off + 1] * 16777216 + s[off + 2] * 65536 + s[off + 3] * 256 + s[off + 4]

\* what a reader of length-prefixed chunks gets from the bytes s: ok says
\* that s is the signature followed by whole chunks and nothing else, and
\* chunks lists them with the offset each starts at
ReadPng(s) ==
    LET bad == [ok |-> FALSE, chunks |-> <<>>]
        From[off \in Nat] ==
            IF off = Len(s) THEN [ok |-> TRUE, chunks |-> <<>>]
            ELSE IF off + 12 > Len(s) THEN bad
            ELSE LET n == ReadU32(s, off)
                 IN  IF n < 0 \/ off + 12 + n > Len(s) THEN bad
                     ELSE LET rest == From[off + 12 + n]
                          IN  [ok     |-> rest.ok,
                               chunks |-> << [offset  |-> off,
                                              length  |-> n,
                                              tag     |-> SubSeq(s, off + 5, off + 8),
                                              payload |-> SubSeq(s, off + 9, off + 8 + n),
                                              crc     |-> SubSeq(s, off + 9 + n, off + 12 + n)] >>
                                          \o rest.chunks]
    IN  IF Len(s) >= 8 /\ SubSeq(s, 1, 8) = PngSignature THEN From[8] ELSE bad

\* zlib.decompress(z) for streams of stored blocks: ok says that z is a
\* well-formed stream whose Adler-32 matches, and data is what it holds
decompress(z) ==
    LET bad == [ok |-> FALSE, data |-> <<>>]
        From[off \in Nat] ==
            IF off + 5 > Len(z) \/ z[off + 1] \notin {0, 1} THEN bad
            ELSE LET n    == z[off + 2] + 256 * z[off + 3]
                     nn   == z[off + 4] + 256 * z[off + 5]
                     body == SubSeq(z, off + 6, off + 5 + n)
                 IN  IF n + nn # 65535 \/ off + 5 + n > Len(z) THEN bad
                     ELSE IF z[off + 1] = 1
                          THEN [ok |-> off + 5 + n + 4 = Len(z), data |-> body]
                     ELSE LET rest == From[off + 5 + n]
                          IN  [ok |-> rest.ok, data |-> body \o rest.data]
        out == IF Len(z) >= 2 /\ z[1] = 120 /\ (z[1] * 256 + z[2]) % 31 = 0
               THEN From[2] ELSE bad
    IN  IF out.ok /\ SubSeq(z, Len(z) - 3, Len(z)) = WordBytes(adler32(out.data))
        THEN out ELSE bad

\* the file of call k
FileOf(k) == disk[calls[k].filename]

\* no call after call k has opened the file of call k
Last(k) ==
    \A j \in Calls :
        j > k /\ calls[j].filename = calls[k].filename
            => pc[j] \in {"pending", "built", "raised13", "raised33"}

\* call k has written its file and no later call has touched that file
Holds(k) == pc[k] \in {"written", "returned"} /\ Last(k)

\* the chunks a reader finds in the file of call k
ChunksOf(k) == ReadPng(FileOf(k).bytes).chunks

(***************************************************************************)
(* C1-C7: calls with any arguments (SpecCall).                             *)
(***************************************************************************)
\* C1: whenever a call has written its file, the file is the 8-byte
\* signature at offset 0 followed by exactly three whole chunks, IHDR, IDAT
\* and IEND in this order, the last with an empty payload, and nothing
\* before, between or after them.
C1_SignatureAndThreeChunks ==
    \A k \in Calls : Holds(k) =>
        LET png == ReadPng(FileOf(k).bytes)
        IN  /\ SubSeq(FileOf(k).bytes, 1, 8) = PngSignature
            /\ png.ok
            /\ Len(png.chunks) = 3
            /\ png.chunks[1].offset = 8
            /\ <<png.chunks[1].tag, png.chunks[2].tag, png.chunks[3].tag>>
                  = <<TagIHDR, TagIDAT, TagIEND>>
            /\ png.chunks[3].payload = <<>>

C1_Witness ==
    \E k \in Calls :
        /\ Holds(k)
        /\ calls[k].size = MaxSize
        /\ Len(ChunksOf(k)) = 3

\* C2: in a written file each chunk is its length field, its tag, its
\* payload and its checksum; the length field is the number of payload
\* bytes emitted (13 for the header, len(compressed) for the data chunk, 0
\* for the end chunk), the payloads are ihdr, compressed and nothing, and
\* the checksum is the CRC-32 of tag + payload, the length field left out.
C2_ChunkLayout ==
    \A k \in Calls : Holds(k) =>
        LET s == FileOf(k).bytes
            n == Len(mem[k].compressed)
        IN  /\ Len(s) = 33 + 12 + n + 12
            /\ SubSeq(s, 9, 12) = PackU32(13)
            /\ SubSeq(s, 13, 16) = TagIHDR
            /\ SubSeq(s, 17, 29) = mem[k].ihdr
            /\ SubSeq(s, 30, 33) = PackCrc(SubSeq(s, 13, 29))
            /\ SubSeq(s, 34, 37) = PackU32(n)
            /\ SubSeq(s, 38, 41) = TagIDAT
            /\ SubSeq(s, 42, 41 + n) = mem[k].compressed
            /\ SubSeq(s, 42 + n, 45 + n) = PackCrc(SubSeq(s, 38, 41 + n))
            /\ SubSeq(s, 46 + n, 49 + n) = PackU32(0)
            /\ SubSeq(s, 50 + n, 53 + n) = TagIEND
            /\ SubSeq(s, 54 + n, 57 + n) = PackCrc(SubSeq(s, 50 + n, 53 + n))

C2_Witness ==
    \E k \in Calls :
        /\ Holds(k)
        /\ calls[k].size = 2
        /\ Len(mem[k].ihdr) = 13
        /\ Len(mem[k].compressed) > 13

\* C3: the payload of the header chunk of a written file is 13 bytes that
\* read back as the width and the height given (the size, twice, each a
\* 4-byte big-endian unsigned integer), then 8, 2, 0, 0, 0.
C3_HeaderRoundTrip ==
    \A k \in Calls : Holds(k) =>
        LET chunks == ChunksOf(k)
            ihdr   == chunks[1].payload
        IN  /\ Len(chunks) >= 1
            /\ chunks[1].tag = TagIHDR
            /\ Len(ihdr) = 13
            /\ ReadU32(ihdr, 0) = calls[k].size
            /\ ReadU32(ihdr, 4) = calls[k].size
            /\ SubSeq(ihdr, 9, 13) = <<8, 2, 0, 0, 0>>

C3_Witness ==
    \E k \in Calls :
        /\ Holds(k)
        /\ calls[k].size = MaxSize
        /\ ReadU32(ChunksOf(k)[1].payload, 0) = MaxSize
        /\ ReadU32(ChunksOf(k)[1].payload, 4) = MaxSize

\* C4: the payload of the data chunk of a written file decompresses to
\* h*(1+3*w) bytes, h rows of one zero byte followed by w times the three
\* bytes of the colour (w = h = size, size 1 included).
C4_PixelRoundTrip ==
    \A k \in Calls : Holds(k) =>
        LET chunks == ChunksOf(k)
            w      == calls[k].size
            h      == calls[k].size
            out    == decompress(chunks[2].payload)
        IN  /\ Len(chunks) >= 2
            /\ chunks[2].tag = TagIDAT
            /\ out.ok
            /\ Len(out.data) = h * (1 + 3 * w)
            /\ \A i \in 1..Len(out.data) :
                  LET col == (i - 1) % (1 + 3 * w)
                  IN  out.data[i] = IF col = 0 THEN 0 ELSE color[((col - 1) % 3) + 1]

C4_Witness ==
    \E j, k \in Calls :
        /\ Holds(j) /\ calls[j].size = 1
        /\ decompress(ChunksOf(j)[2].payload).data = <<0, 102, 126, 234>>
        /\ Holds(k) /\ calls[k].size = 2
        /\ Len(decompress(ChunksOf(k)[2].payload).data) = 14

\* C5 (the claim as stated; size 0 refutes it): a call with a width or
\* height that is zero or negative raises, builds no bytes and writes no
\* file.
C5_NonPositiveSizeRaises ==
    \A k \in Calls : calls[k].size <= 0 =>
        /\ pc[k] \in {"pending", "raised13"}
        /\ mem[k] = NoLocals

\* C7: two calls with the same size leave the same bytes, whatever the
\* names of their destinations, whatever was there before and whatever ran
\* earlier: the files written by two such calls are equal byte for byte,
\* and a file that a call has written holds the bytes that call built and
\* nothing of what was there.
C7_SameInputSameBytes ==
    \A j, k \in Calls :
        /\ (Holds(j) /\ Holds(k) /\ calls[j].size = calls[k].size)
            => FileOf(j).bytes = FileOf(k).bytes
        /\ Holds(k) => FileOf(k) = [exists |-> TRUE, bytes |-> mem[k].data]

C7_Witness ==
    \E j, k \in Calls :
        /\ j < k
        /\ calls[j].size = calls[k].size
        /\ calls[j].size >= 1
        /\ calls[j].filename = "a.png"
        /\ calls[k].filename = "b.png"
        /\ Holds(j) /\ Holds(k)
        /\ FileOf(j).bytes = FileOf(k).bytes
        /\ Len(FileOf(k).bytes) < StaleLen

\* C6 (the claim as stated; a write that fails refutes it): once a call is
\* over, by returning or by raising, its destination holds the complete
\* file or is as it was before the call: absent or stale as at the start,
\* or as the last earlier call to the same destination left it.  It is
\* stated for the valid sizes, so that what refutes it owes nothing to C5.
C6_NoPartialFile ==
    \A k \in Calls :
      (calls[k].size >= 1 /\ pc[k] \in {"written", "returned"} \cup Raised /\ Last(k)) =>
        \/ FileOf(k) \in {NoFile, StaleFile}
        \/ \E j \in Calls :
              /\ j < k
              /\ calls[j].filename = calls[k].filename
              /\ FileOf(k) = [exists |-> TRUE, bytes |-> mem[j].data]
        \/ /\ pc[k] # "raised13"
           /\ FileOf(k) = [exists |-> TRUE, bytes |-> mem[k].data]

(***************************************************************************)
(* C9, C10: the script (Spec).                                             *)
(***************************************************************************)
\* C9: a written file is 8 + 25 + (12 + N) + 12 bytes long, N being the
\* length of the compressed scan lines; the data chunk starts at offset 33
\* and the end chunk is the last 12 bytes.  Size 16 is one of the cases: its
\* uncompressed buffer has 16*(1+48) bytes.
C9_TotalLength ==
    \A k \in Calls : Holds(k) =>
        LET s      == FileOf(k).bytes
            n      == Len(mem[k].compressed)
            chunks == ChunksOf(k)
        IN  /\ Len(s) = 8 + 25 + (12 + n) + 12
            /\ Len(chunks) = 3
            /\ chunks[1].offset + 12 + chunks[1].length = 33
            /\ chunks[2].offset = 33
            /\ chunks[2].tag = TagIDAT
            /\ chunks[2].length = n
            /\ chunks[3].offset = Len(s) - 12
            /\ chunks[3].tag = TagIEND
            /\ calls[k].size = 16 => Len(mem[k].raw_data) = 16 * (1 + 48)

C9_Witness ==
    \E k \in Calls :
        /\ Holds(k)
        /\ calls[k].size = 16
        /\ Len(mem[k].raw_data) = 784
        /\ Len(FileOf(k).bytes) = 57 + Len(mem[k].compressed)

\* the size a destination of the script is named after
NamedSize(f) ==
    CASE f = "icon16.png" -> 16
      [] f = "icon48.png" -> 48
      [] f = "icon128.png" -> 128

\* what C10 says of one state of the script
C10_State ==
    /\ <<calls[1].filename, calls[2].filename, calls[3].filename>>
          = <<"icon16.png", "icon48.png", "icon128.png">>
    \* a call starts only when the calls before it have returned, so a call
    \* that raised stops the run
    /\ \A j, k \in Calls : j < k /\ pc[k] # "pending" => pc[j] = "returned"
    \* the files of the calls that are over are complete, and square of the
    \* size in their name
    /\ \A k \in Calls : pc[k] \in {"written", "returned"} =>
          /\ FileOf(k) = [exists |-> TRUE, bytes |-> mem[k].data]
          /\ ReadU32(FileOf(k).bytes, 16) = NamedSize(calls[k].filename)
          /\ ReadU32(FileOf(k).bytes, 20) = NamedSize(calls[k].filename)
    \* the lines printed follow the calls, and the last line comes after all
    /\ \A i \in DOMAIN stdout :
          IF stdout[i] = AllDoneMsg
          THEN i = Len(calls) + 1 /\ \A k \in Calls : pc[k] = "returned"
          ELSE /\ i \in Calls
               /\ stdout[i] = <<"Created", calls[i].filename, calls[i].size>>
               /\ pc[i] = "returned"

\* what C10 says of one step of the script: a file that has been written
\* is not written again
C10_Step ==
    \A k \in Calls : pc[k] \in {"written", "returned"} =>
        /\ FileOf(k)' = FileOf(k)
        /\ pc'[k] \in {"written", "returned"}

\* C10: the script produces icon16.png, icon48.png and icon128.png in this
\* order, each written once and square of the size in its name; the last
\* message is printed after the three files are complete; a call that
\* raises stops the run, the earlier files staying complete and the later
\* calls never starting.
C10_ScriptOrder == [](C10_State) /\ [][C10_Step]_vars

C10_Witness ==
    /\ pc = <<"returned", "raised34", "pending">>
    /\ stdout = << <<"Created", "icon16.png", 16>> >>
    /\ FileOf(1).bytes = mem[1].data
    /\ FileOf(2).bytes # mem[2].data
    /\ FileOf(3) = StaleFile

(***************************************************************************)
(* C8: the three calls of the script on threads (SpecPar).                 *)
(***************************************************************************)
\* C8: whatever the interleaving of the steps of the three calls, a call
\* that has written its file leaves there exactly the bytes that the call
\* writes when it runs alone, so that the files at the end are those of the
\* run in order.
C8_NoCoordination ==
    \A k \in Calls : pc[k] \in {"written", "returned"} =>
        FileOf(k) = [exists |-> TRUE, bytes |-> Built[calls[k].size].data]

C8_Witness ==
    /\ pc = <<"opened", "returned", "pending">>
    /\ FileOf(2).bytes = Built[48].data
    /\ FileOf(1).bytes = <<>>

====
